---- MODULE Spec2Model ----
(***************************************************************************)
(* Model of relay-server/src/endpoints/metrics/graph.js: the metrics       *)
(* dashboard (class Metrics), its per-metric windowed series (class Graph) *)
(* and the poll loop started by main().                                    *)
(*                                                                         *)
(* Time is the value of Date.now() in milliseconds, counted from the       *)
(* moment main() runs.  A sample is the pair <<timestamp, value>> the code *)
(* stores as [timestamp, value]; JavaScript index 0 is index 1 here.       *)
(* JSON values are modelled as integers: a number n >= 0 is itself, the    *)
(* JSON null is NULLV and JavaScript's undefined is UNDEFINED.             *)
(***************************************************************************)
EXTENDS Integers, Sequences, FiniteSets, TLC

\* ------------------------------------------------------------ constants
\* graph.js:4  const INTERVAL = 10 * 1000
INTERVAL == 10 * 1000
\* graph.js:6  const SCALE = 5 * 60 * 1000
SCALE == 5 * 60 * 1000

\* ------------------------------------------------------------ bounds
\* Timer periods the clock is let through, outages apart.
MaxTicks == 3
\* Milliseconds that may pass between the clock reads of one update
\* (SpecWindow).
MaxDrift == 1
\* Server outages (runs of consecutive rejected fetches) in SpecWindow.
MaxOutages == 1
\* Updates issued in SpecSteady.
SteadyTicks == 40

\* ------------------------------------------------------------ values
\* metrics[name] for a key the snapshot does not have (graph.js:108).
UNDEFINED == -2
\* A JSON null carried as a metric's value.
NULLV == -1
IsFiniteNumber(v) == v >= 0

\* Object.keys order: the model fixes the key order of every object.
KeyOrder == <<"cpu", "rps">>
Names == {KeyOrder[i] : i \in 1..Len(KeyOrder)}
EmptyObj == [n \in {} |-> 0]
Keys(obj) == SelectSeq(KeyOrder, LAMBDA n : n \in DOMAIN obj)
\* obj[name] as JavaScript reads it: undefined for a missing key.
Get(obj, n) == IF n \in DOMAIN obj THEN obj[n] ELSE UNDEFINED

\* ------------------------------------------------------------ responses
\* What `await (await fetch("data.json")).json()` and the destructuring of
\* line 94 can produce:
\*   reject    - fetch() or json() rejects (network error, body not JSON),
\*               or the body is null: line 94 throws;
\*   nometrics - a JSON object without the field `metrics`: metrics is
\*               undefined after line 94;
\*   ok        - a JSON object whose `metrics` is an object.
RejectResp == [kind |-> "reject", metrics |-> EmptyObj]
NoMetricsResp == [kind |-> "nometrics", metrics |-> EmptyObj]
OkResp(m) == [kind |-> "ok", metrics |-> m]

Snapshots ==
  { ("cpu" :> 5) @@ ("rps" :> 7),
    ("cpu" :> 0),
    ("cpu" :> NULLV) @@ ("rps" :> 5),
    EmptyObj }
Responses == {RejectResp, NoMetricsResp} \cup {OkResp(m) : m \in Snapshots}
\* The responses of SpecWindow: the server is up and sends both metrics.
WindowResponses == {OkResp(("cpu" :> 5) @@ ("rps" :> 7))}

VARIABLES
  now,          \* Date.now()
  pc,           \* "init" before main() has run, "running" after
  nextFire,     \* the deadline of setInterval's next callback
  issued,       \* number of Metrics.update() calls made so far
  pending,      \* ticks (0, 1, ...) whose update is suspended at line 94
  initialised,  \* this.metrics is not undefined
  metrics,      \* this.metrics: name -> Graph [name, data, elem]
  children,     \* the child nodes of Metrics.elem, in order
  applied,      \* history: ticks whose update ran past line 94 with kind ok
  created,      \* history: name -> number of Graph constructions
  pushedAt,     \* history: name -> clock read by the name's last push
  evicted,      \* history: name -> samples the name's last push shifted out
  settled,      \* history: kind of the most recently settled fetch
  rejected,     \* history: ticks whose fetch rejected
  outages,      \* history: outages so far
  outaged,      \* history: ticks issued during outages
  last          \* history: the last step taken

vars == <<now, pc, nextFire, issued, pending, initialised, metrics, children,
          applied, created, pushedAt, evicted, settled, rejected, outages, outaged, last>>

\* ------------------------------------------------------------ drawGraph
\* drawGraph(name, data), lines 12-65: the scene is a function of the name,
\* the samples and the clock read at line 13.
drawGraph(name, data, t) == [name |-> name, data |-> data, at |-> t]

\* ------------------------------------------------------------ class Graph
\* Mutant of NewGraph: the series starts empty (this.data = []).
NewGraphNoSample(name, sample, t) ==
  [name |-> name, data |-> <<>>, elem |-> drawGraph(name, <<>>, t)]

\* constructor(name, data), lines 68-72.
NewGraph(name, sample, t) ==
  [name |-> name, data |-> <<sample>>, elem |-> drawGraph(name, <<sample>>, t)]

\* Mutant of Expired: the boundary sample is evicted too (<= for <).
ExpiredInclusive(sample, t) == sample[1] <= t - SCALE

\* The loop condition of line 75.
Expired(sample, t) == sample[1] < t - SCALE

\* Mutant of Evict: at most one sample is shifted out (`if` for `while`).
EvictOnce(data, t) ==
  IF Len(data) > 0 /\ Expired(Head(data), t) THEN Tail(data) ELSE data

\* Lines 75-77: shift while the front sample is expired.
RECURSIVE Evict(_, _)
Evict(data, t) ==
  IF Len(data) > 0 /\ Expired(Head(data), t) THEN Evict(Tail(data), t) ELSE data

\* Mutant of Push: the sample is put at the front (unshift for push).
PushFront(g, sample, t) ==
  LET d == <<sample>> \o Evict(g.data, t)
  IN  [g EXCEPT !.data = d, !.elem = drawGraph(g.name, d, t)]

\* push(data), lines 74-84, on graph g; t is the clock the call reads.
Push(g, sample, t) ==
  LET d == Append(Evict(g.data, t), sample)
  IN  [g EXCEPT !.data = d, !.elem = drawGraph(g.name, d, t)]

\* Mutant of ReplaceChild: the new scene is appended and the old one stays
\* (appendChild for replaceChild).
ReplaceChildAppend(kids, new, old) == Append(kids, new)

\* parentNode.replaceChild(new, old), line 82.
ReplaceChild(kids, new, old) ==
  [i \in 1..Len(kids) |-> IF kids[i] = old THEN new ELSE kids[i]]

\* ------------------------------------------------------------ class Metrics
\* Mutant of Uninitialised: graphs are also created while there are none
\* (`!this.metrics || !Object.keys(this.metrics).length`).
UninitialisedOrEmpty == ~initialised \/ metrics = EmptyObj

\* Mutant of Uninitialised: the test of line 97 is always taken.
UninitialisedAlways == TRUE

\* The test of line 97, `!this.metrics`.
Uninitialised == ~initialised

\* Mutant of Timestamp: the sample is stamped with the time its fetch was
\* issued (Date.now() read before the await).
TimestampAtIssue(tick) == tick * INTERVAL

\* Line 95: the arrival time, read once after the fetch has resolved.
Timestamp(tick) == now

\* The clocks the calls of one update read, one per key, in key order: each
\* is at or after the one before, and at most `drift` after line 95.
ClockReads(keys, drift) ==
  { c \in [1..Len(keys) -> now..(now + drift)] :
      \A i \in 1..Len(keys) : \A j \in 1..Len(keys) : i <= j => c[i] <= c[j] }
ClockAfter(keys, c) == IF Len(keys) = 0 THEN now ELSE c[Len(keys)]

\* Lines 98-105: the graphs built from the first snapshot, in key order.
CreateAll(m, ts, keys, c) ==
  LET idx(n) == CHOOSE i \in 1..Len(keys) : keys[i] = n
  IN  [n \in {keys[i] : i \in 1..Len(keys)} |->
         NewGraph(n, <<ts, m[n]>>, c[idx(n)])]

\* Mutant of PushAll: each pushed sample is stamped with the clock its own
\* push reads instead of the timestamp of line 95.
RECURSIVE PushAllOwnClock(_, _, _, _, _, _)
PushAllOwnClock(st, m, ts, keys, c, i) ==
  IF i > Len(keys) THEN st
  ELSE LET n == keys[i]
           g == Push(st.metrics[n], <<c[i], Get(m, n)>>, c[i])
       IN  PushAllOwnClock([metrics  |-> [st.metrics EXCEPT ![n] = g],
                            children |-> ReplaceChild(st.children, g.elem,
                                                      st.metrics[n].elem)],
                           m, ts, keys, c, i + 1)

\* Mutant of PushAll: the loop is left after its first push.
PushAllFirstOnly(st, m, ts, keys, c, i) ==
  IF i > Len(keys) THEN st
  ELSE LET n == keys[i]
           g == Push(st.metrics[n], <<ts, Get(m, n)>>, c[i])
       IN  [metrics  |-> [st.metrics EXCEPT ![n] = g],
            children |-> ReplaceChild(st.children, g.elem, st.metrics[n].elem)]

\* Lines 107-109: push to every graph of this.metrics, in key order; st is
\* the pair of this.metrics and the container's children so far.
RECURSIVE PushAll(_, _, _, _, _, _)
PushAll(st, m, ts, keys, c, i) ==
  IF i > Len(keys) THEN st
  ELSE LET n == keys[i]
           g == Push(st.metrics[n], <<ts, Get(m, n)>>, c[i])
       IN  PushAll([metrics  |-> [st.metrics EXCEPT ![n] = g],
                    children |-> ReplaceChild(st.children, g.elem,
                                              st.metrics[n].elem)],
                   m, ts, keys, c, i + 1)

\* Metrics.update() up to its suspension at line 94: the fetch is issued.
Update ==
  /\ pending' = pending \cup {issued}
  /\ issued' = issued + 1

\* Lines 95-110 with `metrics` an object (kind ok).
ApplySnapshot(tick, resp, drift) ==
  LET ts == Timestamp(tick) IN
  IF Uninitialised
  THEN LET keys == Keys(resp.metrics) IN
       \E c \in ClockReads(keys, drift) :
         /\ initialised' = TRUE
         /\ metrics' = CreateAll(resp.metrics, ts, keys, c)
         /\ children' = children \o [i \in 1..Len(keys) |-> metrics'[keys[i]].elem]
         /\ created' = [n \in Names |->
                          IF n \in DOMAIN resp.metrics THEN created[n] + 1
                          ELSE created[n]]
         /\ now' = ClockAfter(keys, c)
         /\ UNCHANGED <<pushedAt, evicted>>
  ELSE LET keys == Keys(metrics) IN
       \E c \in ClockReads(keys, drift) :
         LET st == PushAll([metrics |-> metrics, children |-> children],
                           resp.metrics, ts, keys, c, 1)
         IN  /\ metrics' = st.metrics
             /\ children' = st.children
             /\ pushedAt' = [n \in Names |->
                               IF n \in DOMAIN metrics
                               THEN c[CHOOSE i \in 1..Len(keys) : keys[i] = n]
                               ELSE pushedAt[n]]
             /\ evicted' = [n \in Names |->
                              IF n \in DOMAIN metrics
                              THEN LET old == metrics[n].data
                                       new == st.metrics[n].data
                                   IN  SubSeq(old, 1, Len(old) + 1 - Len(new))
                              ELSE evicted[n]]
             /\ now' = ClockAfter(keys, c)
             /\ UNCHANGED <<initialised, created>>

\* Lines 95-110 with `metrics` undefined (kind nometrics): line 98 has run
\* when Object.keys(undefined) throws at line 99; at line 108 the read
\* metrics[name] throws before the first push, and with no graph the loop
\* of line 107 does nothing.
ApplyUndefined ==
  /\ initialised' = TRUE
  /\ metrics' = IF Uninitialised THEN EmptyObj ELSE metrics
  /\ UNCHANGED <<now, children, created, pushedAt, evicted>>

\* Mutant of OnReject: the rejection is caught and the update carries on
\* with `metrics` undefined.
OnRejectContinue == ApplyUndefined /\ UNCHANGED applied

\* Line 94 throws (the fetch or json() rejected): the update ends there.
OnReject ==
  UNCHANGED <<now, initialised, metrics, children, applied, created, pushedAt,
              evicted>>

\* ------------------------------------------------------------ actions
\* main(), lines 114-119: the first update, then the timer is armed.
Main ==
  /\ pc = "init"
  /\ pc' = "running"
  /\ Update
  /\ nextFire' = now + INTERVAL
  /\ last' = [op |-> "main", tick |-> issued, resp |-> RejectResp, ts |-> now]
  /\ UNCHANGED <<now, initialised, metrics, children, applied, created,
                 pushedAt, evicted, settled, rejected, outages, outaged>>

\* Mutant of TimerCallback: no update is started while one is in flight.
SkipIfInFlight == IF pending = {} THEN Update ELSE UNCHANGED <<pending, issued>>

\* The callback of line 118.
TimerCallback == Update

\* setInterval's callback runs once the clock has reached its deadline.
TimerFire ==
  /\ pc = "running"
  /\ now >= nextFire
  /\ TimerCallback
  /\ nextFire' = nextFire + INTERVAL
  /\ last' = [op |-> "timer", tick |-> issued, resp |-> RejectResp, ts |-> now]
  /\ UNCHANGED <<now, pc, initialised, metrics, children, applied, created,
                 pushedAt, evicted, settled, rejected, outages, outaged>>

\* The clock moves to the timer's next deadline.
AdvanceToDeadline ==
  /\ pc = "running"
  /\ now < nextFire
  /\ issued - outaged < MaxTicks
  /\ now' = nextFire
  /\ last' = [op |-> "clock", tick |-> -1, resp |-> RejectResp, ts |-> now']
  /\ UNCHANGED <<pc, nextFire, issued, pending, initialised, metrics, children,
                 applied, created, pushedAt, evicted, settled, rejected, outages, outaged>>

\* The fetch of `tick` settles with `resp` and the update resumes at line 94;
\* the clock moves at most `drift` while the update runs to its end.
Resume(tick, resp, drift) ==
  /\ pc = "running"
  /\ tick \in pending
  /\ pending' = pending \ {tick}
  /\ settled' = resp.kind
  /\ rejected' = IF resp.kind = "reject" THEN rejected \cup {tick} ELSE rejected
  /\ last' = [op |-> "resume", tick |-> tick, resp |-> resp, ts |-> Timestamp(tick)]
  /\ CASE resp.kind = "reject" -> OnReject
       [] resp.kind = "nometrics" ->
            ApplyUndefined /\ UNCHANGED applied
       [] resp.kind = "ok" ->
            ApplySnapshot(tick, resp, drift) /\ applied' = Append(applied, tick)
  /\ UNCHANGED <<pc, nextFire, issued, outages, outaged>>

\* A server outage: with no fetch in flight, the timer fires at each of the
\* next k deadlines and each of these k fetches rejects before the deadline
\* after it.  The step is k rounds of AdvanceToDeadline, TimerFire and
\* Resume with RejectResp.
Outage(k) ==
  /\ pc = "running"
  /\ now < nextFire
  /\ pending = {}
  /\ outages < MaxOutages
  /\ now' = nextFire + (k - 1) * INTERVAL
  /\ nextFire' = nextFire + k * INTERVAL
  /\ issued' = issued + k
  /\ outaged' = outaged + k
  /\ outages' = outages + 1
  /\ settled' = "reject"
  /\ rejected' = rejected \cup (issued..(issued' - 1))
  /\ last' = [op |-> "outage", tick |-> issued' - 1, resp |-> RejectResp, ts |-> now']
  /\ UNCHANGED <<pc, pending, initialised, metrics, children, applied, created,
                 pushedAt, evicted>>

\* Outage lengths that leave a sample just inside and just outside the window.
OutageTicks == {SCALE \div INTERVAL - 1, SCALE \div INTERVAL}

Init ==
  /\ now = 0
  /\ pc = "init"
  /\ nextFire = 0
  /\ issued = 0
  /\ pending = {}
  /\ initialised = FALSE
  /\ metrics = EmptyObj
  /\ children = <<>>
  /\ applied = <<>>
  /\ created = [n \in Names |-> 0]
  /\ pushedAt = [n \in Names |-> -1]
  /\ evicted = [n \in Names |-> <<>>]
  /\ settled = "none"
  /\ rejected = {}
  /\ outages = 0
  /\ outaged = 0
  /\ last = [op |-> "new", tick |-> -1, resp |-> RejectResp, ts |-> 0]

Settle == \E tick \in pending : \E resp \in Responses : Resume(tick, resp, 0)
SettleWindow ==
  \E tick \in pending : \E resp \in WindowResponses : Resume(tick, resp, MaxDrift)
ServerOutage == \E k \in OutageTicks : Outage(k)

\* The dashboard over a few timer periods: every response the server can
\* give, fetches of any latency, updates that run within one millisecond.
Next == Main \/ TimerFire \/ AdvanceToDeadline \/ Settle
Spec == Init /\ [][Next]_vars

\* The dashboard over a span longer than the window, the clock moving while
\* an update runs: the server is up (both metrics in every snapshot) or in
\* an outage.
NextWindow ==
  Main \/ TimerFire \/ AdvanceToDeadline \/ SettleWindow \/ ServerOutage
SpecWindow == Init /\ [][NextWindow]_vars

\* The clock moves to the timer's next deadline, every fetch having settled
\* (each fetch takes less than INTERVAL).
AdvancePrompt ==
  /\ pc = "running"
  /\ now < nextFire
  /\ pending = {}
  /\ issued < SteadyTicks
  /\ now' = nextFire
  /\ last' = [op |-> "clock", tick |-> -1, resp |-> RejectResp, ts |-> now']
  /\ UNCHANGED <<pc, nextFire, issued, pending, initialised, metrics, children,
                 applied, created, pushedAt, evicted, settled, rejected, outages,
                 outaged>>

\* The fetch settles in the millisecond it was issued in.
SettlePrompt ==
  \E tick \in pending : \E resp \in WindowResponses : Resume(tick, resp, 0)

\* The dashboard in its steady state: every fetch resolves at once with both
\* metrics, so updates are applied exactly INTERVAL apart, each at the clock
\* time of its timestamp.
NextSteady == Main \/ TimerFire \/ AdvancePrompt \/ SettlePrompt
SpecSteady == Init /\ [][NextSteady]_vars

\* ------------------------------------------------------------ claims
\* A step that is the resumption of an update whose snapshot is an object.
ResumeOk == last'.op = "resume" /\ last'.resp.kind = "ok"
\* ... taken with this.metrics set: the pushes of lines 107-109.
PushStep == ResumeOk /\ initialised
\* ... taken with this.metrics undefined: the creations of lines 98-105.
CreateStep == ResumeOk /\ ~initialised

Sample(tick_ts, v) == <<tick_ts, v>>
Kept(data) == {data[i] : i \in 1..(Len(data) - 1)}

\* C1 (window invariant): right after a push that read the clock at t, every
\* sample of the series, the appended one included, has timestamp
\* >= t - SCALE; a sample that was in the series before the push is still
\* in it exactly when its timestamp is >= t - SCALE (so one at t - SCALE
\* stays and one at t - SCALE - 1 goes).
C1_WindowInvariant ==
  [][PushStep =>
       \A n \in DOMAIN metrics :
         LET t == pushedAt'[n]
             old == metrics[n].data
             new == metrics'[n].data
         IN  /\ \A i \in 1..Len(new) : new[i][1] >= t - SCALE
             /\ \A i \in 1..Len(old) :
                  (old[i][1] >= t - SCALE) <=> (old[i] \in Kept(new))]_vars

\* C1 witness: a push has just evicted the sample one millisecond older than
\* the window and kept the sample exactly SCALE old at the front.
C1_Witness ==
  /\ last.op = "resume" /\ last.resp.kind = "ok"
  /\ \E n \in DOMAIN metrics :
       /\ Len(evicted[n]) >= 1
       /\ evicted[n][Len(evicted[n])][1] = pushedAt[n] - SCALE - 1
       /\ Len(metrics[n].data) = 2
       /\ metrics[n].data[1][1] = pushedAt[n] - SCALE

\* C2 (order invariant): in every state every series is non-decreasing by
\* timestamp, also when fetches of overlapping updates resolve out of the
\* order they were issued in.
C2_OrderInvariant ==
  \A n \in DOMAIN metrics :
    LET d == metrics[n].data
    IN  \A i \in 1..Len(d) : \A j \in 1..Len(d) : i <= j => d[i][1] <= d[j][1]

\* C2 witness: two updates were in flight together, the later one was applied
\* first, and a series holds the samples of both.
C2_Witness ==
  /\ Len(applied) >= 2
  /\ applied[1] > applied[2]
  /\ \E n \in DOMAIN metrics : Len(metrics[n].data) >= 2

\* C3 (single creation): a Graph is constructed at most once per name, and an
\* ACTIVE name stays in this.metrics with its Graph never constructed again.
C3_SingleCreation ==
  [][/\ \A n \in Names : created'[n] <= 1
     /\ \A n \in DOMAIN metrics :
          n \in DOMAIN metrics' /\ created'[n] = created[n]]_vars

\* C3 witness: the first two updates overlapped (tick 1 was applied while
\* tick 0 was still suspended), both were applied, and cpu was created once.
C3_Witness ==
  /\ Len(applied) = 2
  /\ applied[1] = 1 /\ applied[2] = 0
  /\ "cpu" \in DOMAIN metrics
  /\ created["cpu"] = 1
  /\ Len(metrics["cpu"].data) = 2

\* C4 (as claimed): an update whose snapshot lacks an ACTIVE name leaves that
\* name's Graph as it was.
C4_AbsentUntouched ==
  [][ResumeOk =>
       \A n \in DOMAIN metrics :
         n \notin DOMAIN last'.resp.metrics => metrics'[n] = metrics[n]]_vars

\* The series of n before a step; empty when n has no Graph yet.
OldData(n) == IF n \in DOMAIN metrics THEN metrics[n].data ELSE <<>>
\* new is some suffix of old followed by exactly one sample, s.
OneAppended(old, new, s) ==
  /\ Len(new) >= 1
  /\ new[Len(new)] = s
  /\ \E k \in 0..Len(old) :
       SubSeq(new, 1, Len(new) - 1) = SubSeq(old, k + 1, Len(old))

\* C5 (failed fetch): an update whose fetch rejects changes neither
\* this.metrics nor the displayed scenes; the next update that resumes with a
\* snapshot after a rejected one ends with every series one sample longer at
\* the back (the snapshot's value for it, stamped with the arrival time).
C5_FailedFetchNoChange ==
  [][/\ (last'.op = "resume" /\ last'.resp.kind = "reject") =>
          /\ metrics' = metrics
          /\ initialised' = initialised
          /\ children' = children
     /\ (ResumeOk /\ settled = "reject") =>
          /\ initialised => DOMAIN metrics' = DOMAIN metrics
          /\ \A n \in DOMAIN metrics' :
               OneAppended(OldData(n), metrics'[n].data,
                           Sample(last'.ts, Get(last'.resp.metrics, n)))]_vars

\* C5 witness: tick 0 was applied, tick 1 rejected, tick 2 has just been
\* applied and cpu holds the samples of ticks 0 and 2.
C5_Witness ==
  /\ last.op = "resume" /\ last.resp.kind = "ok" /\ last.tick = 2
  /\ applied = <<0, 2>>
  /\ 1 \in rejected
  /\ "cpu" \in DOMAIN metrics
  /\ Len(metrics["cpu"].data) = 2

\* C6 (as claimed): after a failed tick, when no snapshot has been applied
\* yet, the next well-formed snapshot creates the series of its metrics.
C6_RecoverAfterFailure ==
  [][(ResumeOk /\ settled \in {"reject", "nometrics"} /\ applied = <<>>) =>
       DOMAIN metrics' = DOMAIN last'.resp.metrics]_vars

\* C7 (as claimed): every update that resumes with a snapshot makes each
\* UNSEEN name of the snapshot ACTIVE, with a one-sample series and its
\* scene attached.
C7_EveryTickCreates ==
  [][ResumeOk =>
       \A n \in DOMAIN last'.resp.metrics \ DOMAIN metrics :
         /\ n \in DOMAIN metrics'
         /\ metrics'[n].data = <<Sample(last'.ts, last'.resp.metrics[n])>>
         /\ \E i \in 1..Len(children') : children'[i] = metrics'[n].elem]_vars

\* C7 (amended): the update that resumes with a snapshot while this.metrics
\* is undefined makes exactly the snapshot's names ACTIVE, each with a
\* one-sample series (arrival time, value) and its scene attached; an update
\* that resumes with this.metrics set makes no name ACTIVE.
C7_FirstTickCreates ==
  [][/\ CreateStep =>
          /\ DOMAIN metrics' = DOMAIN last'.resp.metrics
          /\ \A n \in DOMAIN metrics' :
               /\ metrics'[n].data = <<Sample(last'.ts, last'.resp.metrics[n])>>
               /\ \E i \in 1..Len(children') : children'[i] = metrics'[n].elem
     /\ PushStep => DOMAIN metrics' = DOMAIN metrics]_vars

\* C7 witness: cpu was created by the first snapshot, and a later snapshot
\* carrying the unseen name rps has just been applied without creating it.
C7_Witness ==
  /\ last.op = "resume" /\ last.resp.kind = "ok"
  /\ DOMAIN metrics = {"cpu"}
  /\ "rps" \in DOMAIN last.resp.metrics
  /\ Len(metrics["cpu"].data) = 2

\* C8 (as claimed): every retained sample has a finite numeric value.
C8_FiniteValues ==
  \A n \in DOMAIN metrics :
    \A i \in 1..Len(metrics[n].data) : IsFiniteNumber(metrics[n].data[i][2])

\* C9 (scheduling): no update before main() runs; from then on, whenever the
\* timer's callback is not due, the number of updates issued is one (the
\* immediate one) plus the number of INTERVALs elapsed, whatever is pending
\* or has failed.
C9_Schedule ==
  /\ pc = "init" => issued = 0
  /\ (pc = "running" /\ now < nextFire) => issued = (now \div INTERVAL) + 1

\* C9 witness: the third update has been issued on time while two earlier
\* fetches are still pending.
C9_Witness ==
  /\ issued = 3
  /\ now < nextFire
  /\ Cardinality(pending) >= 2
  /\ now >= 2 * INTERVAL

\* C10 (as claimed): snapshots are applied in the order their ticks were
\* issued.
C10_IssueOrder ==
  \A i \in 1..Len(applied) : \A j \in 1..Len(applied) :
    i < j => applied[i] < applied[j]

\* The timestamps of a series, in order.
Stamps(n) == [i \in 1..Len(metrics[n].data) |-> metrics[n].data[i][1]]
IsSuffix(a, b) ==
  Len(a) <= Len(b) /\ a = SubSeq(b, Len(b) - Len(a) + 1, Len(b))

\* C11 (as claimed): all series hold identical sequences of timestamps.
C11_IdenticalStamps ==
  \A n1 \in DOMAIN metrics : \A n2 \in DOMAIN metrics : Stamps(n1) = Stamps(n2)

\* C11 (amended): every sample an update creates or pushes carries the one
\* timestamp of line 95, and after the update, of any two series the
\* timestamps of one are a suffix of the timestamps of the other.
C11_LockstepSuffix ==
  [][ResumeOk =>
       /\ \A n \in DOMAIN metrics' :
            metrics'[n].data[Len(metrics'[n].data)][1] = last'.ts
       /\ \A n1 \in DOMAIN metrics' : \A n2 \in DOMAIN metrics' :
            \/ IsSuffix(Stamps(n1)', Stamps(n2)')
            \/ IsSuffix(Stamps(n2)', Stamps(n1)')]_vars

\* C11 witness: one update has pushed to cpu and, a millisecond later, to
\* rps; the later push evicted the sample at the edge of the window that the
\* earlier one kept.
C11_Witness ==
  /\ last.op = "resume" /\ last.resp.kind = "ok"
  /\ DOMAIN metrics = Names
  /\ pushedAt["rps"] = pushedAt["cpu"] + 1
  /\ Len(metrics["cpu"].data) = Len(metrics["rps"].data) + 1

\* C12 (never empty): in every state every Graph of this.metrics holds at
\* least one sample.
C12_NeverEmpty ==
  \A n \in DOMAIN metrics : Len(metrics[n].data) >= 1

\* C12 witness: a push after a gap longer than the window has just evicted
\* every sample the series held and left only the new one.
C12_Witness ==
  /\ last.op = "resume" /\ last.resp.kind = "ok"
  /\ \E n \in DOMAIN metrics :
       /\ Len(evicted[n]) >= 1
       /\ Len(metrics[n].data) = 1
       /\ metrics[n].data[1][1] = last.ts

\* The most samples a series holds when pushes are INTERVAL apart.
SteadySize == SCALE \div INTERVAL + 1

\* C13 (steady-state size): with the k-th sample stamped and pushed at clock
\* (k - 1) * INTERVAL, a series holds k samples up to SteadySize = 31 and
\* exactly 31 from then on; after the last of SteadyTicks pushes they are the
\* samples stamped from SCALE before the last push up to the last push.
C13_SteadySize ==
  \A n \in DOMAIN metrics :
    LET d == metrics[n].data
        k == Len(applied)
    IN  /\ Len(d) = IF k <= SteadySize THEN k ELSE SteadySize
        /\ k = SteadyTicks =>
             /\ d[1][1] = (SteadyTicks - 1) * INTERVAL - SCALE
             /\ d[Len(d)][1] = (SteadyTicks - 1) * INTERVAL

\* C13 witness: all SteadyTicks updates have been applied and cpu holds 31
\* samples.
C13_Witness ==
  /\ Len(applied) = SteadyTicks
  /\ "cpu" \in DOMAIN metrics
  /\ Len(metrics["cpu"].data) = SteadySize
  /\ Len(evicted["cpu"]) = 1

\* C14 (as claimed): at every moment every retained sample has timestamp
\* >= now - SCALE - INTERVAL.
C14_BoundedStaleness ==
  \A n \in DOMAIN metrics :
    \A i \in 1..Len(metrics[n].data) :
      metrics[n].data[i][1] >= now - SCALE - INTERVAL

\* The clock read by the last push to n, or by its construction when nothing
\* has been pushed yet.
Touched(n) == IF pushedAt[n] >= 0 THEN pushedAt[n] ELSE metrics[n].elem.at

\* C14 (amended): at every moment at which the last push to a series (or its
\* creation) is at most INTERVAL old, every sample of the series has
\* timestamp >= now - SCALE - INTERVAL.
C14_StalenessSincePush ==
  \A n \in DOMAIN metrics :
    now - Touched(n) <= INTERVAL =>
      \A i \in 1..Len(metrics[n].data) :
        metrics[n].data[i][1] >= now - SCALE - INTERVAL

\* C14 witness: one INTERVAL after a push, a series holds a sample older
\* than the window, stale by exactly INTERVAL.
C14_Witness ==
  \E n \in DOMAIN metrics :
    /\ pushedAt[n] >= 0
    /\ now - pushedAt[n] = INTERVAL
    /\ metrics[n].data[1][1] = now - SCALE - INTERVAL

\* The length of the longest prefix of data whose samples are all older
\* than the window that ends at t.
LongestExpiredPrefix(data, t) ==
  CHOOSE k \in 0..Len(data) :
    /\ \A i \in 1..k : data[i][1] < t - SCALE
    /\ k < Len(data) => data[k + 1][1] >= t - SCALE
Sorted(data) ==
  \A i \in 1..Len(data) : \A j \in 1..Len(data) :
    i <= j => data[i][1] <= data[j][1]

\* C16 (push is front-only eviction, then one append): a push of sample s
\* that reads the clock at t leaves the series equal to its previous
\* sequence without its longest prefix of samples older than t - SCALE,
\* followed by s; so retained samples keep their order and samples with
\* equal timestamps all stay, in insertion order.  On a time-sorted
\* sequence this is the previous sequence filtered by timestamp
\* >= t - SCALE, followed by s.  Each series' new sequence is determined by
\* its own previous one, and no series appears or disappears.
C16_PushIsEvictThenAppend ==
  [][PushStep =>
       /\ DOMAIN metrics' = DOMAIN metrics
       /\ \A n \in DOMAIN metrics :
            LET t == pushedAt'[n]
                old == metrics[n].data
                new == metrics'[n].data
                s == Sample(last'.ts, Get(last'.resp.metrics, n))
                k == LongestExpiredPrefix(old, t)
            IN  /\ new = SubSeq(old, k + 1, Len(old)) \o <<s>>
                /\ Sorted(old) =>
                     new = SelectSeq(old, LAMBDA x : x[1] >= t - SCALE) \o <<s>>
  ]_vars
\* Two equal samples at the edge of the window: the push of cpu read the
\* clock at their timestamp + SCALE and kept both in order, the push of rps
\* read it one millisecond later and shifted both out.
C16_Witness ==
  /\ last.op = "resume" /\ last.resp.kind = "ok"
  /\ DOMAIN metrics = Names
  /\ Len(metrics["cpu"].data) = 3
  /\ metrics["cpu"].data[1] = metrics["cpu"].data[2]
  /\ metrics["cpu"].data[1][1] = pushedAt["cpu"] - SCALE
  /\ evicted["cpu"] = <<>>
  /\ Len(evicted["rps"]) = 2
  /\ evicted["rps"][1][1] = evicted["rps"][2][1]
  /\ Len(metrics["rps"].data) = 1

\* C17 (display consistency): the container holds exactly one scene per
\* graph of this.metrics and nothing else, and the scene attached for a
\* graph is the graph's elem, drawn from the graph's current data; so each
\* push finds the scene it replaces among the container's children.
C17_DisplayConsistent ==
  /\ Len(children) = Cardinality(DOMAIN metrics)
  /\ \A n \in DOMAIN metrics :
       /\ Cardinality({i \in 1..Len(children) : children[i].name = n}) = 1
       /\ \E i \in 1..Len(children) : children[i] = metrics[n].elem
       /\ metrics[n].elem.name = n
       /\ metrics[n].elem.data = metrics[n].data
\* Both graphs have been pushed to and the scenes on display are the new ones.
C17_Witness ==
  /\ last.op = "resume" /\ last.resp.kind = "ok"
  /\ DOMAIN metrics = Names
  /\ \A n \in Names : Len(metrics[n].data) >= 2 /\ pushedAt[n] >= 0
  /\ children = [i \in 1..Len(KeyOrder) |-> metrics[KeyOrder[i]].elem]
  /\ \A i \in 1..Len(children) : children[i].data[Len(children[i].data)][1] = last.ts

\* Series n is given a sample by the step (it is created or pushed to).
Got(n) == metrics'[n].data # OldData(n)

\* C18 (a snapshot is applied atomically): in every step either every
\* series is given a sample or none is; when they are, the step is the
\* resumption of one update, each series gets exactly that update's sample
\* at its back, and the other updates in flight stay suspended.
C18_AllOrNone ==
  [][ \/ /\ \A n \in DOMAIN metrics' : ~Got(n)
         /\ DOMAIN metrics' = DOMAIN metrics
      \/ /\ \A n \in DOMAIN metrics' : Got(n)
         /\ ResumeOk
         /\ pending' = pending \ {last'.tick}
         /\ \A n \in DOMAIN metrics' :
              LET d == metrics'[n].data
              IN  /\ d[Len(d)] = Sample(last'.ts, Get(last'.resp.metrics, n))
                  /\ Len(d) <= Len(OldData(n)) + 1
  ]_vars
\* An update has pushed to both series while another update is in flight.
C18_Witness ==
  /\ last.op = "resume" /\ last.resp.kind = "ok"
  /\ pending # {}
  /\ DOMAIN metrics = Names
  /\ \A n \in Names :
       /\ pushedAt[n] >= 0
       /\ Len(metrics[n].data) >= 2
       /\ metrics[n].data[Len(metrics[n].data)][1] = last.ts

\* A step in which an update gets past line 94: its fetch resolved and the
\* body parsed.
Resolved == last'.op = "resume" /\ last'.resp.kind # "reject"

\* C19 (the names are fixed by the first update whose fetch resolves):
\* this.metrics stays undefined, with no graph, until an update gets past
\* line 94; that update sets it, with exactly the keys of its snapshot (none
\* when the body has no `metrics`); from then on the set of names never
\* changes, whatever a later snapshot holds, and every later update with a
\* snapshot appends exactly one sample, its own, to every one of the names.
C19_NamesFixedByFirst ==
  [][ /\ ~initialised =>
           /\ metrics = EmptyObj
           /\ IF Resolved
              THEN /\ initialised'
                   /\ DOMAIN metrics' = DOMAIN last'.resp.metrics
              ELSE ~initialised' /\ metrics' = metrics
      /\ initialised =>
           /\ initialised'
           /\ DOMAIN metrics' = DOMAIN metrics
           /\ ResumeOk =>
                \A n \in DOMAIN metrics :
                  LET old == metrics[n].data
                      new == metrics'[n].data
                      e == Len(evicted'[n])
                  IN  /\ Len(new) = Len(old) - e + 1
                      /\ SubSeq(new, 1, Len(new) - 1) = SubSeq(old, e + 1, Len(old))
                      /\ new[Len(new)] =
                           Sample(last'.ts, Get(last'.resp.metrics, n))
  ]_vars
\* The first snapshot had cpu only; a later one with cpu and rps has been
\* applied: cpu has its two samples and there is no graph for rps.
C19_Witness ==
  /\ last.op = "resume" /\ last.resp.kind = "ok"
  /\ DOMAIN last.resp.metrics = Names
  /\ initialised
  /\ DOMAIN metrics = {"cpu"}
  /\ created["rps"] = 0
  /\ Len(applied) = 2
  /\ Len(metrics["cpu"].data) = 2
  /\ metrics["cpu"].data[2] = Sample(last.ts, last.resp.metrics["cpu"])

====
